---------------------------- MODULE Spec2Model ----------------------------
(***************************************************************************)
(* patchlan: the session orchestrator of src/lib.rs (PatchLan::connect,    *)
(* PatchLan::listen, PatchLan::ping) and its caller main of src/main.rs,   *)
(* as a state machine over the swarm's event stream.                       *)
(*                                                                         *)
(* The orchestrator is the single consumer of the stream; the transports,  *)
(* the relay and the remote peer are the producers.  An event is produced  *)
(* and consumed in one step; what the producers did before the event is    *)
(* consumed is kept in lstate, relay and circuit.                          *)
(***************************************************************************)
EXTENDS Integers, Sequences, FiniteSets, TLC

VARIABLES
    stream,                   \* who feeds swarm.next(): "swarm", "quiet" or "any"
    args,                     \* main.rs:21-38,61: relay, seed and the peer_id of ping
    keypair,                  \* lib.rs:27: the secret bytes of the local identity
    target,                   \* the address given to the latest listen_on / dial
    pc,                       \* position of the process (main / connect / listen / ping)
    command,                  \* args.command of main
    listen_events_remaining,  \* lib.rs:55
    delayFired,               \* the futures_timer::Delay of lib.rs:54 has completed
    learned_observed_addr,    \* lib.rs:82
    tol_relay_observed_addr,  \* lib.rs:83
    issued,                   \* the swarm calls made so far, in order
    lstate,                   \* per listener: none / pending / bound / failing / failed
    addrs,                    \* per local listener: NewListenAddr events consumed
    relay,                    \* connection to the relay: none / dialing / connected / failed / closed
    circuit,                  \* connection to the remote peer: none / incoming / dialing / established / direct / closed
    lastEvent                 \* the event consumed last

vars == <<stream, args, keypair, target, pc, command, listen_events_remaining, delayFired, learned_observed_addr,
          tol_relay_observed_addr, issued, lstate, addrs, relay, circuit,
          lastEvent>>

-----------------------------------------------------------------------------
(* Bounds and constants *)

\* Addresses one listener may report (0.0.0.0 reports one per interface).
MaxAddrs == 2

\* lib.rs:55  let mut listen_events_remaining = 2;
InitialListenEvents == 2

LocalListeners == {"quic", "tcp"}
Listeners == LocalListeners \cup {"circuit"}
Peers == {"relay", "remote"}

\* main.rs:42-48, Option<Command>
Commands == {"None", "Listen", "Ping", "AddRelay", "Init", "Status"}

-----------------------------------------------------------------------------
(* Multiaddr and the identity *)

\* A Multiaddr is the bytes of its protocols, one after the other: the code
\* of the protocol, then its payload.  The payload of p2p (the multihash of
\* a peer id) is prefixed by its length, the payloads of the others have a
\* fixed size; an ip4 address and a port are one number each here.
ProtoCode ==
    [ip4 |-> 4, tcp |-> 6, udp |-> 273, p2p_circuit |-> 290, p2p |-> 421,
     quic_v1 |-> 461]

ProtoSize == [ip4 |-> 1, tcp |-> 1, udp |-> 1, p2p_circuit |-> 0, quic_v1 |-> 0]

Proto(n, v) == [proto |-> n, val |-> v]

\* libp2p::multiaddr::Protocol::P2pCircuit and Protocol::P2p(peer)
P2pCircuit == Proto("p2p_circuit", <<>>)
P2p(peer) == Proto("p2p", peer)

\* Protocol::write_bytes
WriteBytes(c) ==
    <<ProtoCode[c.proto]>>
        \o (IF c.proto = "p2p" THEN <<Len(c.val)>> \o c.val ELSE c.val)

\* Multiaddr::with: the address with the bytes of protocol c at its end.
With(addr, c) == addr \o WriteBytes(c)

\* Multiaddr::iter: the protocols of an address, read from its first byte on.
RECURSIVE Protocols(_)
Protocols(bytes) ==
    IF bytes = <<>>
    THEN <<>>
    ELSE LET n == CHOOSE x \in DOMAIN ProtoCode : ProtoCode[x] = bytes[1]
             from == IF n = "p2p" THEN 3 ELSE 2
             size == IF n = "p2p" THEN bytes[2] ELSE ProtoSize[n]
         IN  <<Proto(n, SubSeq(bytes, from, from + size - 1))>>
                 \o Protocols(SubSeq(bytes, from + size, Len(bytes)))

\* "...".parse(): the address of a sequence of protocols.
RECURSIVE Addr(_)
Addr(cs) ==
    IF cs = <<>>
    THEN <<>>
    ELSE With(Addr(SubSeq(cs, 1, Len(cs) - 1)), cs[Len(cs)])

\* lib.rs:51-52: "/ip4/0.0.0.0/udp/0/quic-v1" and "/ip4/0.0.0.0/tcp/0"
LocalAddr(l) ==
    IF l = "quic"
    THEN Addr(<<Proto("ip4", <<0>>), Proto("udp", <<0>>), Proto("quic_v1", <<>>)>>)
    ELSE Addr(<<Proto("ip4", <<0>>), Proto("tcp", <<0>>)>>)

\* lib.rs:123-126: the address listen() listens on.
ListenAddr(relay_address) == With(relay_address, P2pCircuit)

PingAddr_PeerBeforeMarker(relay_address, peer) ==
    With(With(relay_address, P2p(peer)), P2pCircuit)

\* lib.rs:176-182: the address ping(peer) dials.
PingAddr(relay_address, peer) ==
    With(With(relay_address, P2pCircuit), P2p(peer))

\* The relay addresses of the runs that vary the arguments: a relay with its
\* peer id, one whose payloads are the codes of other protocols, one that
\* ends in a circuit marker already, and the empty address.
RelayAddrs ==
    {Addr(<<Proto("ip4", <<1>>), Proto("tcp", <<2>>), P2p(<<9>>)>>),
     Addr(<<Proto("ip4", <<421>>), Proto("udp", <<290>>), Proto("quic_v1", <<>>)>>),
     Addr(<<Proto("ip4", <<1>>), Proto("tcp", <<2>>), P2pCircuit>>),
     Addr(<<>>)}

\* Peer ids (their multihash bytes); the second one reads as protocol codes.
PeerIds == {<<7>>, <<290, 421>>}

\* Seeds tried beside the largest u8.
MaxSeed == 2
Seeds == 0..MaxSeed \cup {255}

\* lib.rs:233  [0u8; 32]
KeyLen == 32

\* No keypair yet.
NoKey == <<>>

generate_ed25519_FillAll(secret_key_seed) ==
    [i \in 0..(KeyLen - 1) |-> secret_key_seed]

\* lib.rs:232-237: the 32 secret bytes, all 0 but the first, which is the
\* seed.  ed25519_from_bytes derives the keypair from these bytes alone.
generate_ed25519(secret_key_seed) ==
    [i \in 0..(KeyLen - 1) |-> IF i = 0 THEN secret_key_seed ELSE 0]

-----------------------------------------------------------------------------
(* The event stream *)

Ev(t, a) == [type |-> t, arg |-> a]

NoEvent == Ev("none", "none")
EOF == Ev("EOF", "none")

\* The SwarmEvent variants the stream can carry (None as EOF).
Events ==
    {Ev("NewListenAddr", l) : l \in Listeners}
    \cup {Ev("ListenerClosed", l) : l \in Listeners}
    \cup {Ev("IncomingConnection", a) : a \in {"direct", "circuit"}}
    \cup {Ev(t, p) : t \in {"Dialing", "ConnectionEstablished", "ConnectionClosed",
                            "OutgoingConnectionError",
                            "IdentifySent", "IdentifyReceived", "IdentifyPushed"},
                     p \in Peers}
    \cup {Ev("Ping", "none"), Ev("ReservationReqAccepted", "none"),
          Ev("ReservationReqFailed", "none"), Ev("RelayClientOther", "none"), EOF}
    \cup {Ev("Dcutr", r) : r \in {"ok", "fail"}}

Connected(p) ==
    IF p = "relay" THEN relay = "connected" ELSE circuit \in {"established", "direct"}

\* What the producers can put on the stream in the current state.
Deliverable(e) ==
    CASE e.type = "NewListenAddr" ->
            /\ lstate[e.arg] \in {"pending", "bound"}
            /\ e.arg \in LocalListeners => addrs[e.arg] < MaxAddrs
      [] e.type = "ListenerClosed" -> lstate[e.arg] = "failing"
      [] e.type = "IncomingConnection" ->
            IF e.arg = "direct"
            THEN \E l \in LocalListeners : lstate[l] = "bound"
            ELSE lstate["circuit"] = "bound" /\ relay = "connected" /\ circuit = "none"
      [] e.type = "Dialing" ->
            IF e.arg = "relay" THEN relay = "dialing" ELSE circuit = "dialing"
      [] e.type = "ConnectionEstablished" ->
            IF e.arg = "relay" THEN relay = "dialing"
            ELSE circuit \in {"dialing", "incoming"} /\ relay = "connected"
      [] e.type = "OutgoingConnectionError" ->
            IF e.arg = "relay" THEN relay = "dialing" ELSE circuit = "dialing"
      [] e.type = "ConnectionClosed" -> Connected(e.arg)
      [] e.type \in {"IdentifySent", "IdentifyReceived", "IdentifyPushed"} ->
            Connected(e.arg)
      [] e.type = "Ping" -> Connected("relay") \/ Connected("remote")
      [] e.type \in {"ReservationReqAccepted", "ReservationReqFailed"} ->
            relay = "connected" /\ lstate["circuit"] = "pending"
      [] e.type = "RelayClientOther" ->
            relay = "connected" /\ (lstate["circuit"] # "none" \/ circuit # "none")
      [] e.type = "Dcutr" -> circuit = "established"
      [] e.type = "EOF" -> TRUE
      [] OTHER -> FALSE

\* On the stream of a well-behaved swarm an event tells what its producer
\* did; on any other stream it tells nothing, and lstate, relay and circuit
\* follow the calls of the process alone.
Tracked == stream # "any"

\* The listeners after event e.
LstateAfter(e) ==
    CASE ~Tracked -> lstate
      [] e.type = "NewListenAddr" -> [lstate EXCEPT ![e.arg] = "bound"]
      [] e.type = "ListenerClosed" -> [lstate EXCEPT ![e.arg] = "failed"]
      [] e.type = "ReservationReqFailed" -> [lstate EXCEPT !["circuit"] = "failed"]
      [] OTHER -> lstate

AddrsAfter(e) ==
    IF e.type = "NewListenAddr" /\ e.arg \in LocalListeners
    THEN [addrs EXCEPT ![e.arg] = @ + 1]
    ELSE addrs

\* The relay connection after event e.
RelayAfter(e) ==
    CASE ~Tracked -> relay
      [] e = Ev("ConnectionEstablished", "relay") -> "connected"
      [] e = Ev("OutgoingConnectionError", "relay") -> "failed"
      [] e = Ev("ConnectionClosed", "relay") -> "closed"
      [] OTHER -> relay

\* The connection to the remote peer after event e and the calls ops made by
\* the handler of e.
CircuitAfter(e, ops) ==
    CASE \E i \in 1..Len(ops) : ops[i] = "close_circuit" -> "closed"
      [] ~Tracked -> circuit
      [] e = Ev("IncomingConnection", "circuit") -> "incoming"
      [] e = Ev("ConnectionEstablished", "remote") -> "established"
      [] e = Ev("OutgoingConnectionError", "remote") -> "closed"
      [] e = Ev("ConnectionClosed", "remote") -> "closed"
      [] e = Ev("ConnectionClosed", "relay") /\ circuit = "established" -> "closed"
      [] e = Ev("Dcutr", "ok") -> "direct"
      [] OTHER -> circuit

\* The events of a session in which nothing fails and the listeners report
\* one address after the other: the stream "quiet" carries only these.
QuietTypes ==
    {"NewListenAddr", "ConnectionEstablished", "IdentifySent", "IdentifyReceived",
     "ReservationReqAccepted", "Dcutr", "EOF"}

\* What swarm.next() can return.  A well-behaved swarm returns what its
\* producers can emit.  The type of the stream admits every SwarmEvent at
\* every time (spec 7: an event "structurally impossible given current
\* state" may arrive, by a contract breach of the relay or the remote peer);
\* stream = "any" is that stream, and there only the number of addresses a
\* listener reports stays bounded.
Admitted(e) ==
    CASE stream = "swarm" -> Deliverable(e)
      [] stream = "quiet" -> Deliverable(e) /\ e.type \in QuietTypes
      [] OTHER -> (e.type = "NewListenAddr" /\ e.arg \in LocalListeners) =>
                     addrs[e.arg] < MaxAddrs

\* The producers' side of consuming event e: e is on the stream, and the
\* listeners are as e reports them.
Produced(e) ==
    /\ Admitted(e)
    /\ lstate' = LstateAfter(e)
    /\ addrs' = AddrsAfter(e)
    /\ lastEvent' = e

unchangedEnv == UNCHANGED <<lstate, addrs, relay, circuit, lastEvent>>
unchangedLocals ==
    UNCHANGED <<listen_events_remaining, delayFired, learned_observed_addr,
                tol_relay_observed_addr>>

Terminal == {"exit_ok", "exit_err", "panic"}

-----------------------------------------------------------------------------
(* PatchLan::connect *)

\* The state of main before PatchLan::connect, the stream fed by src.
InitOn(src, relays, seeds, peers) ==
    /\ stream = src
    /\ args \in [relay : relays, seed : seeds, peer_id : peers]
    /\ keypair = NoKey
    /\ target = <<>>
    /\ pc = "start"
    /\ command \in Commands
    /\ listen_events_remaining = InitialListenEvents
    /\ delayFired = FALSE
    /\ learned_observed_addr = FALSE
    /\ tol_relay_observed_addr = FALSE
    /\ issued = <<>>
    /\ lstate = [l \in Listeners |-> "none"]
    /\ addrs = [l \in LocalListeners |-> 0]
    /\ relay = "none"
    /\ circuit = "none"
    /\ lastEvent = NoEvent

\* One relay, one seed and one peer id where the arguments do not matter.
OneRelay == {Addr(<<Proto("ip4", <<1>>), Proto("tcp", <<2>>), P2p(<<9>>)>>)}

Init == InitOn("swarm", OneRelay, {1}, {<<7>>})

InitAny == InitOn("any", OneRelay, {1}, {<<7>>})

InitAddrs == InitOn("quiet", RelayAddrs, {1}, PeerIds)

InitSeeds == InitOn("quiet", OneRelay, Seeds, {<<7>>})

\* lib.rs:30-49: the SwarmBuilder chain; each `?` returns the error to main.
Build ==
    /\ pc = "start"
    /\ keypair' = generate_ed25519(args.seed)
    /\ \E ok \in BOOLEAN : pc' = IF ok THEN "listen_quic" ELSE "exit_err"
    /\ UNCHANGED <<stream, args, target, command, issued>>
    /\ unchangedLocals /\ unchangedEnv

\* swarm.listen_on(addr)? for local listener l, then on to position next.
ListenOn(l, here, next) ==
    /\ pc = here
    /\ issued' = Append(issued, "listen_on_" \o l)
    /\ target' = LocalAddr(l)
    /\ \E ok \in BOOLEAN :
         /\ pc' = IF ok THEN next ELSE "exit_err"
         /\ lstate' = [lstate EXCEPT ![l] = IF ok THEN "pending" ELSE "failed"]
    /\ UNCHANGED <<stream, args, keypair, command, addrs, relay, circuit, lastEvent>>
    /\ unchangedLocals

\* lib.rs:51
ListenOnQuic == ListenOn("quic", "listen_quic", "listen_tcp")

\* lib.rs:52
ListenOnTcp == ListenOn("tcp", "listen_tcp", "bind_loop")

\* A transport's listener fails while the orchestrator is suspended; the
\* failure is reported later, as a ListenerClosed event.
BindFails ==
    /\ pc \notin Terminal
    /\ \E l \in Listeners :
         /\ lstate[l] \in {"pending", "bound"}
         /\ lstate' = [lstate EXCEPT ![l] = "failing"]
    /\ UNCHANGED <<stream, args, keypair, target, pc, command, issued, addrs, relay,
                   circuit, lastEvent>>
    /\ unchangedLocals

\* lib.rs:81  swarm.dial(relay_address.clone())?  and the two flags of 82-83.
RelayDial(ok) ==
    /\ issued' = Append(issued, "dial_relay")
    /\ target' = args.relay
    /\ relay' = IF ok THEN "dialing" ELSE relay
    /\ pc' = IF ok THEN "ready_loop" ELSE "exit_err"

\* BindHandler breaking on the first NewListenAddr, whatever the counter says.
BindHandler_BreakOnFirst(e, rem) ==
    IF e.type = "NewListenAddr"
    THEN [rem |-> rem - 1, out |-> "break"]
    ELSE [rem |-> rem, out |-> "panic"]

\* lib.rs:61-71: one event of the bind-wait loop, rem = listen_events_remaining.
BindHandler(e, rem) ==
    IF e.type = "NewListenAddr"
    THEN [rem |-> rem - 1, out |-> IF rem - 1 = 0 THEN "break" ELSE "continue"]
    ELSE [rem |-> rem, out |-> "panic"]

\* lib.rs:58-72, and 80-81 when the loop breaks.
BindEvent ==
    /\ pc = "bind_loop"
    /\ \E e \in Events, ok \in BOOLEAN :
         LET h == BindHandler(e, listen_events_remaining) IN
         /\ Produced(e)
         /\ listen_events_remaining' = h.rem
         /\ circuit' = CircuitAfter(e, <<>>)
         /\ IF h.out = "break"
            THEN RelayDial(ok)
            ELSE /\ pc' = IF h.out = "panic" THEN "panic" ELSE pc
                 /\ UNCHANGED <<issued, relay, target>>
    /\ UNCHANGED <<stream, args, keypair, command, delayFired, learned_observed_addr,
                   tol_relay_observed_addr>>

\* DelayFires warning without leaving the loop.
DelayFires_NoBreak ==
    /\ pc = "bind_loop"
    /\ ~delayFired
    /\ delayFired' = TRUE
    /\ UNCHANGED <<stream, args, keypair, target, pc, command,
                   listen_events_remaining, learned_observed_addr,
                   tol_relay_observed_addr, issued, lstate, addrs, relay, circuit,
                   lastEvent>>

\* lib.rs:73-76, and 80-81: the grace timer wins the select.
DelayFires ==
    /\ pc = "bind_loop"
    /\ ~delayFired
    /\ delayFired' = TRUE
    /\ \E ok \in BOOLEAN : RelayDial(ok)
    /\ UNCHANGED <<stream, args, keypair, command, listen_events_remaining,
                   learned_observed_addr,
                   tol_relay_observed_addr, lstate, addrs, circuit, lastEvent>>

Tolerated ==
    {"Ping", "IdentifySent", "IdentifyReceived", "ConnectionEstablished",
     "NewListenAddr", "Dialing"}

\* ReadyHandler leaving the loop on either flag.
ReadyHandler_BreakOnEither(e, learned, tol) ==
    LET l2 == learned \/ e.type = "IdentifyReceived"
        t2 == tol \/ e.type = "IdentifySent"
    IN  CASE e.type = "EOF" -> [learned |-> learned, tol |-> tol, out |-> "err"]
          [] e.type \in Tolerated ->
                [learned |-> l2, tol |-> t2,
                 out |-> IF l2 \/ t2 THEN "break" ELSE "continue"]
          [] OTHER -> [learned |-> learned, tol |-> tol, out |-> "panic"]

\* ReadyHandler taking the relay connection itself for readiness.
ReadyHandler_BreakOnConnection(e, learned, tol) ==
    LET l2 == learned \/ e.type = "IdentifyReceived"
        t2 == tol \/ e.type = "IdentifySent"
    IN  CASE e.type = "EOF" -> [learned |-> learned, tol |-> tol, out |-> "err"]
          [] e.type \in Tolerated ->
                [learned |-> l2, tol |-> t2,
                 out |-> IF (l2 /\ t2) \/ e.type = "ConnectionEstablished"
                         THEN "break" ELSE "continue"]
          [] OTHER -> [learned |-> learned, tol |-> tol, out |-> "panic"]

\* ReadyHandler assigning each flag from the event at hand.
ReadyHandler_FlagsFromEvent(e, learned, tol) ==
    LET l2 == e.type = "IdentifyReceived"
        t2 == e.type = "IdentifySent"
    IN  CASE e.type = "EOF" -> [learned |-> learned, tol |-> tol, out |-> "err"]
          [] e.type \in Tolerated ->
                [learned |-> l2, tol |-> t2,
                 out |-> IF l2 /\ t2 THEN "break" ELSE "continue"]
          [] OTHER -> [learned |-> learned, tol |-> tol, out |-> "panic"]

\* lib.rs:86-111: one event of the relay-ready loop.
ReadyHandler(e, learned, tol) ==
    LET l2 == learned \/ e.type = "IdentifyReceived"
        t2 == tol \/ e.type = "IdentifySent"
    IN  CASE e.type = "EOF" -> [learned |-> learned, tol |-> tol, out |-> "err"]
          [] e.type \in Tolerated ->
                [learned |-> l2, tol |-> t2,
                 out |-> IF l2 /\ t2 THEN "break" ELSE "continue"]
          [] OTHER -> [learned |-> learned, tol |-> tol, out |-> "panic"]

\* lib.rs:85-116
ReadyEvent ==
    /\ pc = "ready_loop"
    /\ \E e \in Events :
         LET h == ReadyHandler(e, learned_observed_addr, tol_relay_observed_addr) IN
         /\ Produced(e)
         /\ relay' = RelayAfter(e)
         /\ circuit' = CircuitAfter(e, <<>>)
         /\ learned_observed_addr' = h.learned
         /\ tol_relay_observed_addr' = h.tol
         /\ pc' = CASE h.out = "break" -> "connected"
                    [] h.out = "err" -> "exit_err"
                    [] h.out = "panic" -> "panic"
                    [] OTHER -> pc
    /\ UNCHANGED <<stream, args, keypair, target, command, listen_events_remaining,
                   delayFired, issued>>

-----------------------------------------------------------------------------
(* main, PatchLan::listen, PatchLan::ping *)

\* main.rs:79-80 and lib.rs:123-127: listen_on(relay_address + p2p-circuit)?
Listen ==
    /\ pc = "connected"
    /\ command \in {"None", "Listen"}
    /\ issued' = Append(issued, "listen_on_circuit")
    /\ target' = ListenAddr(args.relay)
    /\ \E ok \in BOOLEAN :
         /\ pc' = IF ok THEN "listen_loop" ELSE "exit_err"
         /\ lstate' = [lstate EXCEPT !["circuit"] = IF ok THEN "pending" ELSE "failed"]
    /\ UNCHANGED <<stream, args, keypair, command, addrs, relay, circuit, lastEvent>>
    /\ unchangedLocals

\* main.rs:81 and lib.rs:176-183: dial(relay_address + p2p-circuit + peer)
Ping ==
    /\ pc = "connected"
    /\ command = "Ping"
    /\ issued' = Append(issued, "dial_circuit")
    /\ target' = PingAddr(args.relay, args.peer_id)
    /\ \E ok \in BOOLEAN :
         /\ pc' = IF ok THEN "ping_loop" ELSE "exit_err"
         /\ circuit' = IF ok THEN "dialing" ELSE circuit
    /\ UNCHANGED <<stream, args, keypair, command, lstate, addrs, relay, lastEvent>>
    /\ unchangedLocals

\* main.rs:82  todo!("command not yet implemented")
Todo ==
    /\ pc = "connected"
    /\ command \in {"AddRelay", "Init", "Status"}
    /\ pc' = "panic"
    /\ UNCHANGED <<stream, args, keypair, target, command, issued>>
    /\ unchangedLocals /\ unchangedEnv

\* lib.rs:131-165: the arms of listen's and ping's loops that log (info!,
\* dbg!); Ping and the `_` arm do nothing.
Logging ==
    {"NewListenAddr", "ReservationReqAccepted", "ReservationReqFailed",
     "RelayClientOther", "Dcutr", "ConnectionEstablished",
     "OutgoingConnectionError"}

\* ListenHandler asking for the reservation again when it is rejected.
ListenHandler_RetryOnRejection(e) ==
    [ops |-> IF e.type = "ReservationReqFailed"
             THEN <<"listen_on_circuit">> ELSE <<>>,
     log |-> e.type \in Logging,
     out |-> IF e.type = "EOF" THEN "return" ELSE "continue"]

\* ListenHandler giving up when a dial fails.
ListenHandler_ReturnOnConnectionError(e) ==
    [ops |-> <<>>,
     log |-> e.type \in Logging,
     out |-> IF e.type \in {"EOF", "OutgoingConnectionError"}
             THEN "return" ELSE "continue"]

\* lib.rs:129-170: one event of listen's loop: the swarm calls it makes,
\* whether it logs the event and whether the loop goes on.
ListenHandler(e) ==
    [ops |-> <<>>,
     log |-> e.type \in Logging,
     out |-> IF e.type = "EOF" THEN "return" ELSE "continue"]

\* PingHandler tearing the circuit down when the direct upgrade fails.
PingHandler_CloseOnUpgradeFailure(e) ==
    [ops |-> IF e = Ev("Dcutr", "fail") THEN <<"close_circuit">> ELSE <<>>,
     log |-> e.type \in Logging,
     out |-> IF e.type = "EOF" THEN "return" ELSE "continue"]

\* lib.rs:185-228: the same for ping's loop.
PingHandler(e) ==
    [ops |-> <<>>,
     log |-> e.type \in Logging,
     out |-> IF e.type = "EOF" THEN "return" ELSE "continue"]

Serve(h, e) ==
    /\ Produced(e)
    /\ relay' = RelayAfter(e)
    /\ circuit' = CircuitAfter(e, h.ops)
    /\ issued' = issued \o h.ops
    /\ pc' = IF h.out = "return" THEN "exit_ok" ELSE pc
    /\ UNCHANGED <<stream, args, keypair, target, command>>
    /\ unchangedLocals

ListenEvent ==
    /\ pc = "listen_loop"
    /\ \E e \in Events : Serve(ListenHandler(e), e)

PingEvent ==
    /\ pc = "ping_loop"
    /\ \E e \in Events : Serve(PingHandler(e), e)

-----------------------------------------------------------------------------

Next ==
    \/ Build
    \/ ListenOnQuic
    \/ ListenOnTcp
    \/ BindFails
    \/ BindEvent
    \/ DelayFires
    \/ ReadyEvent
    \/ Listen
    \/ Ping
    \/ Todo
    \/ ListenEvent
    \/ PingEvent

Spec == Init /\ [][Next]_vars

\* The timer of lib.rs:54 completes, and the process runs whenever it has a
\* step that waits for nothing.  Nothing obliges the producers to produce.
FairSpec ==
    /\ Spec
    /\ WF_vars(DelayFires)
    /\ WF_vars(Build \/ ListenOnQuic \/ ListenOnTcp \/ Listen \/ Ping \/ Todo)

\* The process on a stream that may carry any event at any time.
OpenSpec == InitAny /\ [][Next]_vars

\* The runs over the relay addresses and peer ids given to main, and the runs
\* over the seeds, both on a stream where nothing fails.
AddrSpec == InitAddrs /\ [][Next]_vars

SeedSpec == InitSeeds /\ [][Next]_vars

TypeOK ==
    /\ stream \in {"swarm", "quiet", "any"}
    /\ args \in [relay : RelayAddrs \cup OneRelay, seed : 0..255, peer_id : PeerIds]
    /\ keypair = NoKey \/ keypair \in [0..(KeyLen - 1) -> 0..255]
    /\ target \in Seq(Nat)
    /\ pc \in {"start", "listen_quic", "listen_tcp", "bind_loop", "ready_loop",
               "connected", "listen_loop", "ping_loop"} \cup Terminal
    /\ command \in Commands
    /\ listen_events_remaining \in 0..InitialListenEvents
    /\ delayFired \in BOOLEAN
    /\ learned_observed_addr \in BOOLEAN
    /\ tol_relay_observed_addr \in BOOLEAN
    /\ lstate \in [Listeners -> {"none", "pending", "bound", "failing", "failed"}]
    /\ addrs \in [LocalListeners -> 0..MaxAddrs]
    /\ relay \in {"none", "dialing", "connected", "failed", "closed"}
    /\ circuit \in {"none", "incoming", "dialing", "established", "direct", "closed"}
    /\ lastEvent \in Events \cup {NoEvent}

-----------------------------------------------------------------------------
(* Properties *)

Issued(op) == \E i \in 1..Len(issued) : issued[i] = op

BindingEnded == listen_events_remaining = 0 \/ delayFired

RelayReady == learned_observed_addr /\ tol_relay_observed_addr

\* connect has returned Ok(PatchLan)
AfterConnect == pc \in {"connected", "listen_loop", "ping_loop", "exit_ok"}

\* C1: connect signals readiness (its relay-ready loop exits and it returns
\* Ok(PatchLan)) only in a state where both flags are true, whatever the
\* order and multiplicity of the events; one flag alone never yields it.
ReadinessNeedsBothFlags ==
    AfterConnect => learned_observed_addr /\ tol_relay_observed_addr

\* C1's case: connect returned on identify Sent, Received having come first.
ReadyAfterReceivedThenSent ==
    /\ pc = "connected"
    /\ lastEvent.type = "IdentifySent"
    /\ learned_observed_addr /\ tol_relay_observed_addr

\* C2 as stated: the relay dial is issued iff at least one local listener
\* has reported an address or the grace timer fired.
DialIffOneBoundOrTimer ==
    Issued("dial_relay") <=>
        ((\E l \in LocalListeners : addrs[l] > 0) \/ delayFired)

\* C2 amended: the orchestrator leaves Binding and issues the relay dial iff
\* listen_events_remaining has reached 0 (two NewListenAddr events consumed)
\* or the grace timer fired first.
DialIffAllBoundOrTimer ==
    Issued("dial_relay") <=> (listen_events_remaining = 0 \/ delayFired)

\* C2's case: the dial issued on the second NewListenAddr, the timer unfired.
DialedOnSecondListenAddr ==
    /\ pc = "ready_loop"
    /\ listen_events_remaining = 0
    /\ ~delayFired
    /\ Issued("dial_relay")

\* C3 as stated: the relay-ready wait always ends.
RelayWaitEnds == (pc = "ready_loop") ~> (pc # "ready_loop")

\* C4: the bind-wait loop always ends, by the bind events or by the timer,
\* also when no bind outcome is ever delivered.
BindWaitEnds == (pc = "bind_loop") ~> (pc # "bind_loop")

\* C4's case: the timer ended a bind wait in which no event was delivered.
TimerEndedSilentBindWait ==
    /\ pc = "ready_loop"
    /\ delayFired
    /\ listen_events_remaining = InitialListenEvents
    /\ lastEvent = NoEvent

\* C5: the reservation request and the circuit dial are issued only after
\* Binding has ended, after the relay dial, and with the relay session ready
\* (both flags true); the relay dial is issued only after Binding has ended.
PhaseOrdering ==
    /\ Issued("dial_relay") => BindingEnded
    /\ \A i \in 1..Len(issued) :
         issued[i] \in {"listen_on_circuit", "dial_circuit"} =>
            /\ BindingEnded
            /\ RelayReady
            /\ \E j \in 1..(i - 1) : issued[j] = "dial_relay"

\* C5's case: ping has issued the circuit dial.
CircuitDialIssued == pc = "ping_loop" /\ Issued("dial_circuit")

\* C6 as stated: when the grace timer fires with every local listener failed
\* and none ever bound, connect does not dial the relay and startup is fatal.
AllFailedIsFatal ==
    [][(/\ ~delayFired /\ delayFired'
        /\ listen_events_remaining = InitialListenEvents
        /\ \A l \in LocalListeners : lstate[l] \in {"failing", "failed"})
       => (issued' = issued /\ pc' \in {"exit_err", "panic"})]_vars

\* C7 as stated: a listener's failure, synchronous or by a later event, leaves
\* the other listener's bind attempted and its outcome observed.
OtherBindStillAttempted ==
    /\ (pc \in Terminal /\ lstate["quic"] = "failed") => Issued("listen_on_tcp")
    /\ (lastEvent.type = "ListenerClosed" /\ ~BindingEnded) => pc = "bind_loop"

UnexpectedInStartup ==
    {"OutgoingConnectionError", "IncomingConnection", "ListenerClosed",
     "ConnectionClosed"}

\* C8 as stated: no single unexpected event aborts the whole process.
UnexpectedEventNeverAborts ==
    lastEvent.type \in UnexpectedInStartup => pc # "panic"

\* C9: when a direct upgrade fails, listen and ping issue no close of the
\* relayed circuit: it stays Established and the loop keeps serving.
FallbackKeepsCircuit ==
    lastEvent = Ev("Dcutr", "fail") =>
        /\ circuit = "established"
        /\ pc \in {"listen_loop", "ping_loop"}
        /\ ~Issued("close_circuit")

\* C9's case: ping's loop has consumed a failed direct upgrade.
UpgradeFailedInPing ==
    pc = "ping_loop" /\ lastEvent = Ev("Dcutr", "fail")

\* C10 as stated: a failed dial to the target ends ping.
FailedDialEndsPing ==
    lastEvent = Ev("OutgoingConnectionError", "remote") => pc \in Terminal

\* C11 as stated: a readiness flag becomes true only on the relay's identify
\* event (Sent for identity_acknowledged, Received for observed_address_known);
\* an identify event of any other peer sets neither.
FlagsDrivenByRelayOnly ==
    [][/\ (tol_relay_observed_addr' /\ ~tol_relay_observed_addr)
            => lastEvent' = Ev("IdentifySent", "relay")
       /\ (learned_observed_addr' /\ ~learned_observed_addr)
            => lastEvent' = Ev("IdentifyReceived", "relay")]_vars

\* The reservation requests made so far.
Requests == Cardinality({i \in 1..Len(issued) : issued[i] = "listen_on_circuit"})

SplitCircuit(addr) ==
    LET cs == Protocols(addr)
        n == Len(cs)
    IN  [relay |-> Addr(SubSeq(cs, 1, n - 2)), marker |-> cs[n - 1], peer |-> cs[n]]

\* C13: the address ping dials is the relay address, then the circuit
\* marker, then the target peer, in this order; reading it back gives the
\* relay address, the marker and the peer it was built from.  The address
\* listen listens on is the relay address, then the marker, and reads back
\* as the protocols of the relay address followed by the marker.
CircuitAddressRoundTrips ==
    /\ Issued("dial_circuit") =>
          /\ target = args.relay \o WriteBytes(P2pCircuit) \o WriteBytes(P2p(args.peer_id))
          /\ SplitCircuit(target) =
                [relay |-> args.relay, marker |-> P2pCircuit, peer |-> P2p(args.peer_id)]
    /\ Issued("listen_on_circuit") =>
          /\ target = args.relay \o WriteBytes(P2pCircuit)
          /\ Protocols(target) = Protocols(args.relay) \o <<P2pCircuit>>

\* C13's case: ping has dialed through a relay whose address carries numbers
\* that are protocol codes, to a peer whose id does too.
DialedThroughOddRelay ==
    /\ pc = "ping_loop"
    /\ Issued("dial_circuit")
    /\ args.peer_id = <<290, 421>>
    /\ args.relay =
          Addr(<<Proto("ip4", <<421>>), Proto("udp", <<290>>), Proto("quic_v1", <<>>)>>)

\* The secret of every seed a u8 can hold.
SecretOf == [b \in 0..255 |-> generate_ed25519(b)]

\* C19: the secret of the identity is the one the seed gives: 32 bytes, the
\* first the seed, the others 0; no other seed gives it; and from startup on
\* no step changes it.
IdentityFromSeed ==
    pc # "start" =>
        /\ DOMAIN keypair = 0..31
        /\ keypair[0] = args.seed
        /\ \A i \in 1..31 : keypair[i] = 0
        /\ \A b \in 0..255 : b # args.seed => SecretOf[b] # keypair

\* C19's case: a session run with seed 2 is serving, after events.
ServingWithSeedTwo ==
    /\ pc = "listen_loop"
    /\ lastEvent.type = "ReservationReqAccepted"
    /\ args.seed = 2
    /\ keypair[0] = 2

Waiting == {"bind_loop", "ready_loop", "listen_loop", "ping_loop"}

\* C15 as stated: a ping event consumed in any phase (Binding,
\* AwaitingRelayReady, Serving, DialingTarget) changes neither the phase, nor
\* listen_events_remaining, nor the readiness flags, and raises no error.
\* (A step that consumes an event issues no call and leaves the timer alone
\* unless the event ends the bind wait, which a ping does not.)
PingIgnoredInEveryPhase ==
    [][(pc \in Waiting /\ lastEvent' = Ev("Ping", "none") /\ issued' = issued
            /\ delayFired' = delayFired)
        => /\ pc' = pc
           /\ UNCHANGED <<listen_events_remaining, learned_observed_addr,
                          tol_relay_observed_addr>>]_vars

\* C16: once listen has asked for the reservation and serves, no event makes
\* it leave the loop but the end of the stream, on which listen returns Ok.
ServesUntilStreamEnds ==
    [][(pc = "listen_loop" /\ pc' # "listen_loop")
        => (lastEvent' = EOF /\ pc' = "exit_ok")]_vars

\* C16's case: listen still serves after an outgoing connection error.
ServingAfterConnectionError ==
    /\ pc = "listen_loop"
    /\ Issued("listen_on_circuit")
    /\ lastEvent.type = "OutgoingConnectionError"

\* C17 as stated: when listen_events_remaining has reached 0 and the timer
\* has not fired, the QUIC listener and the TCP listener have each reported
\* at least one address.
ZeroMeansBothTransportsBound ==
    (listen_events_remaining = 0 /\ ~delayFired)
        => \A l \in LocalListeners : addrs[l] >= 1

\* C18: in the relay-ready wait no event sets a readiness flag back to
\* false; an event that is not identify Received leaves
\* learned_observed_addr as it is, and one that is not identify Sent leaves
\* tol_relay_observed_addr as it is.
ReadinessFlagsMonotonic ==
    [][pc = "ready_loop"
        => /\ learned_observed_addr => learned_observed_addr'
           /\ tol_relay_observed_addr => tol_relay_observed_addr'
           /\ lastEvent'.type # "IdentifyReceived"
                 => learned_observed_addr' = learned_observed_addr
           /\ lastEvent'.type # "IdentifySent"
                 => tol_relay_observed_addr' = tol_relay_observed_addr]_vars

\* C18's case: a late address of the TCP listener is consumed in the
\* relay-ready wait while one flag is set and the other is not.
LateListenAddrAfterFlag ==
    /\ pc = "ready_loop"
    /\ tol_relay_observed_addr
    /\ ~learned_observed_addr
    /\ lastEvent = Ev("NewListenAddr", "tcp")

=============================================================================
